---- MODULE Spec2Model ----
(***************************************************************************)
(* A model of src/src/Font.js: the font registry (loaded, loadPromises,    *)
(* loadAsync) and the name resolver (processFontFamily).                   *)
(*                                                                         *)
(* JavaScript values are tagged records, JavaScript strings are TLA+       *)
(* strings, and the two registry objects are functions from their own      *)
(* keys to values; property reads fall back to Object.prototype.           *)
(* One action is one run-to-suspension step of the event loop.             *)
(***************************************************************************)
EXTENDS Integers, Sequences, FiniteSets, TLC

\* ------------------------------------------------------------- bounds
MaxTasks == 2
MaxOps == 2
MaxMapSize == 2
MaxArraySize == 2
MaxArrayCalls == 1

\* ------------------------------------------------- JavaScript values
Undefined == [type |-> "undefined"]
Null == [type |-> "null"]
Str(s) == [type |-> "string", val |-> s]
Num(n) == [type |-> "number", val |-> n]
Bool(b) == [type |-> "boolean", val |-> b]
AssetObject(a) == [type |-> "object", asset |-> a]
PromiseOf(k) == [type |-> "promise", op |-> k]
FunctionObject == [type |-> "function"]

\* ToBoolean, as applied by `if (x)`, `!x` and invariant(x, ...).
Truthy(v) ==
    CASE v.type = "undefined" -> FALSE
      [] v.type = "null" -> FALSE
      [] v.type = "boolean" -> v.val
      [] v.type = "number" -> v.val # 0
      [] v.type = "string" -> v.val # ""
      [] OTHER -> TRUE

\* String.prototype.includes
includes(s, sub) ==
    \E i \in 1..(Len(s) - Len(sub) + 1) : SubSeq(s, i, i + Len(sub) - 1) = sub

\* Properties every object literal `{}` inherits from Object.prototype.
ObjectPrototypeKeys == {"constructor"}

\* obj.hasOwnProperty(key)
hasOwnProperty(obj, key) == key \in DOMAIN obj

\* obj[key]
Get(obj, key) ==
    IF key \in DOMAIN obj THEN obj[key]
    ELSE IF key \in ObjectPrototypeKeys THEN FunctionObject
    ELSE Undefined

\* obj[key] = value
Put(obj, key, value) ==
    [x \in DOMAIN obj \cup {key} |-> IF x = key THEN value ELSE obj[x]]

\* delete obj[key]
Delete(obj, key) == [x \in DOMAIN obj \ {key} |-> obj[x]]

EmptyObject == [x \in {} |-> Undefined]

\* ------------------------------------------------------ collaborators
\* Constants.sessionId and Constants.systemFonts (expo-constants).
sessionId == "abc"
systemFonts == {"Arial"}

\* The asset handles of the run; Asset.fromModule maps a module number to
\* its handle.
fromModule(n) == n
localUri(a) == IF a = 1 THEN "file:///cache/1.ttf" ELSE "file:///cache/2.ttf"

\* ------------------------------------------------------------- inputs
\* The font names the application loads: an ordinary name, a name the
\* resolver bypasses (a system font), and a name Object.prototype defines.
NameOrder == <<"Foo", "Arial", "constructor">>
FontNames == {NameOrder[i] : i \in DOMAIN NameOrder}
Position(name) == CHOOSE i \in DOMAIN NameOrder : NameOrder[i] = name

\* The sources it passes: none, a remote URI, a module number, and the asset
\* handle of that module.
RemoteUri == "https://example.com/Foo.ttf"
Sources == {Undefined, Str(RemoteUri), Num(1), AssetObject(1)}
ValidSources == {Num(1), AssetObject(1)}

\* A font map is an object literal; Object.keys enumerates its (non-integer)
\* keys in insertion order, so it is a sequence of <<name, source>> entries
\* with distinct names. The maps of the run insert their keys in NameOrder.
RECURSIVE SeqsUpTo(_, _)
SeqsUpTo(S, n) ==
    IF n = 0 THEN {<<>>}
    ELSE LET shorter == SeqsUpTo(S, n - 1)
         IN  shorter \cup {Append(s, x) : s \in shorter, x \in S}

FontMaps ==
    {m \in SeqsUpTo(FontNames \X Sources, MaxMapSize) :
        \A i, j \in 1..Len(m) : i < j => Position(m[i][1]) < Position(m[j][1])}

\* The deprecated form passes an array of font maps. The arrays of the run
\* use two names and two modules with different assets, so that one name can
\* come with different sources in different maps.
ArrayNames == {"Foo", "Arial"}
ArraySources == {Undefined, Num(1), Num(2)}
ArrayMaps ==
    {m \in SeqsUpTo(ArrayNames \X ArraySources, MaxMapSize) :
        \A i, j \in 1..Len(m) : i < j => Position(m[i][1]) < Position(m[j][1])}
FontArrays == SeqsUpTo(ArrayMaps, MaxArraySize)

\* { ...fontMap1, ...fontMap2 } of the deprecation message (line 87): object
\* spread assigns the entries of each map in turn; a key that is already
\* there keeps its place and takes the new value.
Assign(target, entry) ==
    IF \E i \in 1..Len(target) : target[i][1] = entry[1]
    THEN [i \in 1..Len(target) |-> IF target[i][1] = entry[1] THEN entry ELSE target[i]]
    ELSE Append(target, entry)

RECURSIVE SpreadInto(_, _)
SpreadInto(target, m) ==
    IF m = <<>> THEN target ELSE SpreadInto(Assign(target, m[1]), Tail(m))

RECURSIVE MergeInto(_, _)
MergeInto(target, fontMaps) ==
    IF fontMaps = <<>> THEN target
    ELSE MergeInto(SpreadInto(target, fontMaps[1]), Tail(fontMaps))

Merge(fontMaps) == MergeInto(<<>>, fontMaps)

\* ------------------------------------------------------------- errors
NoError == ""
ErrNoSource(name) == "No source from which to load font \"" \o name \o "\""
ErrRemoteUri == "Loading fonts from remote URIs is temporarily not supported."
ErrFailedDownload(name) == "Failed to download asset for font \"" \o name \o "\""
ErrDownloadRejected == "asset.downloadAsync rejected"
ErrNativeRejected == "ExpoFontLoader.loadAsync rejected"

\* -------------------------------------------------------------- state
VARIABLES
    loaded,         \* const loaded = {}: own keys -> true
    loadPromises,   \* const loadPromises = {}: own keys -> promise of an operation
    ops,            \* the async operations created at lines 115-122, by creation order
    downloadCalls,  \* the asset.downloadAsync() calls made: <<operation, font name, asset>>
    nativeCalls,    \* the ExpoFontLoader.loadAsync calls made: <<operation, native name, localUri>>
    registered,     \* the native names whose registration has succeeded
    tasks           \* the loadAsync calls made by the application, by call order

vars == <<loaded, loadPromises, ops, downloadCalls, nativeCalls, registered, tasks>>

OpIds == 1..Len(ops)
TaskIds == 1..Len(tasks)

Running == {"downloading", "registering", "returned", "thrown"}
Settled == {"fulfilled", "rejected"}

\* -------------------------------------------------------- the resolver
\* A variant of _getNativeFontName that leaves the session id out.
_getNativeFontName_NoSession(name) == "font-" \o name

\* _getNativeFontName, lines 151-153
_getNativeFontName(name) == sessionId \o "-" \o name

\* A variant of isLoaded that reads loaded[name] as loadAsync line 100 does.
isLoadedIn_PropertyRead(loadedObj, name) == Truthy(Get(loadedObj, name))

\* isLoaded, lines 73-75, and isLoading, lines 77-79
isLoadedIn(loadedObj, name) == hasOwnProperty(loadedObj, name)
isLoaded(name) == isLoadedIn(loaded, name)
isLoading(name) == hasOwnProperty(loadPromises, name)

\* A variant of processFontFamily that takes a name in flight for a loaded one.
processFontFamily_InFlightCounts(name) ==
    IF ~Truthy(name) \/ name.val \in systemFonts \/ name.val = "System" THEN name
    ELSE IF includes(name.val, "FuturaBT") THEN name
    ELSE IF includes(name.val, sessionId) THEN name
    ELSE IF ~isLoaded(name.val) /\ ~isLoading(name.val) THEN Str("System")
    ELSE Str("ExpoFont-" \o _getNativeFontName(name.val))

\* A variant of processFontFamily that consults the Loaded Set before the
\* system-font, bundled-font and session-id exceptions.
processFontFamily_LoadedFirst(name) ==
    IF ~Truthy(name) THEN name
    ELSE IF isLoaded(name.val) THEN Str("ExpoFont-" \o _getNativeFontName(name.val))
    ELSE IF name.val \in systemFonts \/ name.val = "System" THEN name
    ELSE IF includes(name.val, "FuturaBT") THEN name
    ELSE IF includes(name.val, sessionId) THEN name
    ELSE Str("System")

\* processFontFamily, lines 31-71; its argument and result are JavaScript
\* values (a string or undefined).
processFontFamily(name) ==
    IF ~Truthy(name) \/ name.val \in systemFonts \/ name.val = "System" THEN name
    ELSE IF includes(name.val, "FuturaBT") THEN name
    ELSE IF includes(name.val, sessionId) THEN name
    ELSE IF ~isLoaded(name.val) THEN Str("System")
    ELSE Str("ExpoFont-" \o _getNativeFontName(name.val))

\* The two diagnostics of lines 50-62 (their first sentences).
StillLoadingError(name) ==
    "You started loading '" \o name \o "', but used it before it finished loading"
NeverLoadedError(name) ==
    "fontFamily '" \o name \o "' is not a system font and has not been loaded through Font.loadAsync."

\* The console.error calls one processFontFamily(name) call makes, in order,
\* in a build whose __DEV__ flag is dev (lines 32-66).
consoleErrors(name, dev) ==
    IF ~Truthy(name) \/ name.val \in systemFonts \/ name.val = "System" THEN <<>>
    ELSE IF includes(name.val, "FuturaBT") THEN <<>>
    ELSE IF includes(name.val, sessionId) THEN <<>>
    ELSE IF ~isLoaded(name.val)
         THEN IF dev
              THEN IF isLoading(name.val)
                   THEN <<StillLoadingError(name.val)>>
                   ELSE <<NeverLoadedError(name.val)>>
              ELSE <<>>
    ELSE <<>>

\* -------------------------------------------------------- the registry
\* _getAssetForSource, lines 127-141, for a source that is not a string
\* (a string source throws: see StartOrThrow).
_getAssetForSource(source) ==
    IF source.type = "number" THEN fromModule(source.val) ELSE source.asset

\* The registry as one value, threaded through the calls a fan-out makes.
Registry ==
    [loaded |-> loaded, loadPromises |-> loadPromises, ops |-> ops,
     downloadCalls |-> downloadCalls]

Member(name, st, op, err) == [name |-> name, st |-> st, op |-> op, err |-> err]

\* A variant of NewOp that does not store the promise in loadPromises.
NewOp_NoEntry(r, name, asset) ==
    LET k == Len(r.ops) + 1
    IN  [reg |-> [r EXCEPT
                    !.ops = Append(@, [name |-> name, asset |-> asset,
                                       phase |-> "downloading", err |-> NoError]),
                    !.downloadCalls = @ \cup {<<k, name, asset>>}],
         member |-> Member(name, "pending", k, NoError)]

\* loadAsync lines 115-124: the async function is created and runs up to its
\* first suspension, `await asset.downloadAsync()` at line 144; its promise is
\* stored in loadPromises[name] and the caller awaits it.
NewOp(r, name, asset) ==
    LET k == Len(r.ops) + 1
    IN  [reg |-> [r EXCEPT
                    !.ops = Append(@, [name |-> name, asset |-> asset,
                                       phase |-> "downloading", err |-> NoError]),
                    !.loadPromises = Put(@, name, PromiseOf(k)),
                    !.downloadCalls = @ \cup {<<k, name, asset>>}],
         member |-> Member(name, "pending", k, NoError)]

\* A variant of StartOrThrow in which a string source is turned into an asset
\* (the Asset.fromUri of the TODO at lines 129-130) instead of throwing.
StartOrThrow_FromUri(r, name, source) ==
    IF ~Truthy(source)
    THEN [reg |-> r, member |-> Member(name, "rejected", 0, ErrNoSource(name))]
    ELSE IF source.type = "string" THEN NewOp(r, name, 1)
    ELSE NewOp(r, name, _getAssetForSource(source))

\* loadAsync lines 113-124: validate the source, normalize it, create the
\* operation and record it as in flight, all before the first suspension.
StartOrThrow(r, name, source) ==
    IF ~Truthy(source)
    THEN [reg |-> r, member |-> Member(name, "rejected", 0, ErrNoSource(name))]
    ELSE IF source.type = "string"
    THEN [reg |-> r, member |-> Member(name, "rejected", 0, ErrRemoteUri)]
    ELSE NewOp(r, name, _getAssetForSource(source))

\* A variant of JoinInFlight that returns without awaiting the shared promise.
JoinInFlight_NotAwaited(r, name, source) ==
    LET p == Get(r.loadPromises, name)
    IN  [reg |-> r,
         member |-> Member(name, "resolved", IF p.type = "promise" THEN p.op ELSE 0, NoError)]

\* loadAsync lines 104-106: `if (loadPromises[name]) return loadPromises[name]`.
\* Returning a promise adopts it; returning any other value fulfils.
JoinInFlight(r, name, source) ==
    LET p == Get(r.loadPromises, name)
    IN  IF p.type = "promise"
        THEN [reg |-> r, member |-> Member(name, "pending", p.op, NoError)]
        ELSE [reg |-> r, member |-> Member(name, "resolved", 0, NoError)]

\* A variant of loadAsyncName without the already-loaded check of lines 100-102.
loadAsyncName_NoLoadedCheck(r, name, source) ==
    IF Truthy(Get(r.loadPromises, name))
    THEN JoinInFlight(r, name, source)
    ELSE StartOrThrow(r, name, source)

\* A variant of loadAsyncName without the in-flight check of lines 104-106.
loadAsyncName_NoInFlightCheck(r, name, source) ==
    IF Truthy(Get(r.loaded, name))
    THEN [reg |-> r, member |-> Member(name, "resolved", 0, NoError)]
    ELSE StartOrThrow(r, name, source)

\* loadAsync lines 98-125, the single-name case, up to its first suspension.
loadAsyncName(r, name, source) ==
    IF Truthy(Get(r.loaded, name))
    THEN [reg |-> r, member |-> Member(name, "resolved", 0, NoError)]
    ELSE IF Truthy(Get(r.loadPromises, name))
    THEN JoinInFlight(r, name, source)
    ELSE StartOrThrow(r, name, source)

\* loadAsync line 94: names.map(name => loadAsync(name, fontMap[name])) calls
\* loadAsync for every entry in order, each up to its first suspension.
RECURSIVE loadAsyncMembers(_, _)
loadAsyncMembers(r, m) ==
    IF m = <<>> THEN [reg |-> r, members |-> <<>>]
    ELSE LET first == loadAsyncName(r, m[1][1], m[1][2])
             rest == loadAsyncMembers(first.reg, Tail(m))
         IN  [reg |-> rest.reg, members |-> <<first.member>> \o rest.members]

\* Promise.all over the member promises (lines 89 and 94), and the plain
\* await of the single-name case: rejected with the first rejection,
\* fulfilled once every member is.
FirstRejected(members) ==
    CHOOSE i \in 1..Len(members) :
        /\ members[i].st = "rejected"
        /\ \A j \in 1..(i - 1) : members[j].st # "rejected"

PromiseAll(form, members) ==
    IF \E i \in 1..Len(members) : members[i].st = "rejected"
    THEN [form |-> form, st |-> "rejected", err |-> members[FirstRejected(members)].err,
          members |-> members]
    ELSE IF \A i \in 1..Len(members) : members[i].st = "resolved"
    THEN [form |-> form, st |-> "resolved", err |-> NoError, members |-> members]
    ELSE [form |-> form, st |-> "pending", err |-> NoError, members |-> members]

Commit(r, task) ==
    /\ Len(tasks) < MaxTasks
    /\ Len(r.ops) <= MaxOps
    /\ loaded' = r.loaded
    /\ loadPromises' = r.loadPromises
    /\ ops' = r.ops
    /\ downloadCalls' = r.downloadCalls
    /\ tasks' = Append(tasks, task)
    /\ UNCHANGED <<nativeCalls, registered>>

\* The application calls loadAsync(name, source).
LoadName(name, source) ==
    LET res == loadAsyncName(Registry, name, source)
    IN  Commit(res.reg, PromiseAll("name", <<res.member>>))

\* The application calls loadAsync(fontMap).
LoadMap(m) ==
    LET res == loadAsyncMembers(Registry, m)
    IN  Commit(res.reg, PromiseAll("map", res.members))

\* A variant of loadAsyncArray that loads the first map of the array only.
loadAsyncArray_FirstMapOnly(r, fontMaps) ==
    IF fontMaps = <<>> THEN [reg |-> r, members |-> <<>>]
    ELSE loadAsyncMembers(r, fontMaps[1])

\* loadAsync lines 85-90, the array branch: nameOrMap.map(loadAsync) calls
\* loadAsync(fontMap) for each map in turn, each of which runs its name
\* calls synchronously (lines 92-94) before the next map is looked at. The
\* outer Promise.all rejects with the first rejection of an inner
\* Promise.all, which is the first rejection of a member: the members of the
\* maps, in order, are the members of the call.
RECURSIVE loadAsyncArray(_, _)
loadAsyncArray(r, fontMaps) ==
    IF fontMaps = <<>> THEN [reg |-> r, members |-> <<>>]
    ELSE LET first == loadAsyncMembers(r, fontMaps[1])
             rest == loadAsyncArray(first.reg, Tail(fontMaps))
         IN  [reg |-> rest.reg, members |-> first.members \o rest.members]

\* The application calls loadAsync([fontMap1, ..., fontMapk]).
LoadArray(fontMaps) ==
    LET res == loadAsyncArray(Registry, fontMaps)
    IN  Commit(res.reg, PromiseAll("array", res.members))

SetPhase(k, phase, err) == [ops EXCEPT ![k].phase = phase, ![k].err = err]

\* A variant of DownloadSettle without the `if (!asset.downloaded)` check of
\* lines 145-147.
DownloadSettle_NoDownloadedCheck(k, resolves, isDownloaded) ==
    /\ k \in OpIds
    /\ ops[k].phase = "downloading"
    /\ IF ~resolves
       THEN /\ ~isDownloaded
            /\ ops' = SetPhase(k, "thrown", ErrDownloadRejected)
            /\ UNCHANGED nativeCalls
       ELSE /\ ops' = SetPhase(k, "registering", NoError)
            /\ nativeCalls' =
                 nativeCalls \cup {<<k, _getNativeFontName(ops[k].name), localUri(ops[k].asset)>>}
    /\ UNCHANGED <<loaded, loadPromises, downloadCalls, registered, tasks>>

\* _loadSingleFontAsync lines 144-148: asset.downloadAsync() settles. The asset
\* collaborator decides whether it rejects and, when it resolves, what the
\* asset's `downloaded` field reads at line 145.
DownloadSettle(k, resolves, isDownloaded) ==
    /\ k \in OpIds
    /\ ops[k].phase = "downloading"
    /\ LET a == ops[k].asset
           name == ops[k].name
       IN  IF ~resolves
           THEN /\ ~isDownloaded
                /\ ops' = SetPhase(k, "thrown", ErrDownloadRejected)
                /\ UNCHANGED nativeCalls
           ELSE IF ~isDownloaded
           THEN /\ ops' = SetPhase(k, "thrown", ErrFailedDownload(name))
                /\ UNCHANGED nativeCalls
           ELSE /\ ops' = SetPhase(k, "registering", NoError)
                /\ nativeCalls' =
                     nativeCalls \cup {<<k, _getNativeFontName(name), localUri(a)>>}
    /\ UNCHANGED <<loaded, loadPromises, downloadCalls, registered, tasks>>

\* _loadSingleFontAsync line 148: ExpoFontLoader.loadAsync settles.
NativeSettle(k, resolves) ==
    /\ k \in OpIds
    /\ ops[k].phase = "registering"
    /\ IF resolves
       THEN /\ ops' = SetPhase(k, "returned", NoError)
            /\ registered' = registered \cup {_getNativeFontName(ops[k].name)}
       ELSE /\ ops' = SetPhase(k, "thrown", ErrNativeRejected)
            /\ UNCHANGED registered
    /\ UNCHANGED <<loaded, loadPromises, downloadCalls, nativeCalls, tasks>>

\* A variant of LoadedAfter with `loaded[name] = true` moved into the
\* `finally` block: the name is marked loaded on failure too.
LoadedAfter_InFinally(loadedObj, k) == Put(loadedObj, ops[k].name, Bool(TRUE))

\* A variant of LoadedAfter that drops the result of a load once a fan-out
\* that waits on it has been rejected (sibling loads cancelled on failure).
LoadedAfter_CancelSiblings(loadedObj, k) ==
    IF /\ ops[k].phase = "returned"
       /\ ~\E t \in TaskIds :
              /\ tasks[t].st = "rejected"
              /\ \E i \in 1..Len(tasks[t].members) : tasks[t].members[i].op = k
    THEN Put(loadedObj, ops[k].name, Bool(TRUE))
    ELSE loadedObj

\* loadAsync lines 116-121, after `await _loadSingleFontAsync(name, asset)`:
\* loaded[name] = true on success, and `delete loadPromises[name]` in finally.
LoadedAfter(loadedObj, k) ==
    IF ops[k].phase = "returned" THEN Put(loadedObj, ops[k].name, Bool(TRUE))
    ELSE loadedObj

\* A variant of LoadPromisesAfter with the delete in a `catch` block: the
\* entry is deleted only when the load failed.
LoadPromisesAfter_CatchOnly(promises, k) ==
    IF ops[k].phase = "thrown" THEN Delete(promises, ops[k].name) ELSE promises

\* A variant of LoadPromisesAfter without the `finally`: the entry is deleted
\* only when the load succeeded.
LoadPromisesAfter_NoFinally(promises, k) ==
    IF ops[k].phase = "returned" THEN Delete(promises, ops[k].name) ELSE promises

LoadPromisesAfter(promises, k) == Delete(promises, ops[k].name)

OpSettle(k) ==
    /\ k \in OpIds
    /\ ops[k].phase \in {"returned", "thrown"}
    /\ loaded' = LoadedAfter(loaded, k)
    /\ loadPromises' = LoadPromisesAfter(loadPromises, k)
    /\ ops' = [ops EXCEPT ![k].phase =
                 IF ops[k].phase = "returned" THEN "fulfilled" ELSE "rejected"]
    /\ UNCHANGED <<downloadCalls, nativeCalls, registered, tasks>>

\* The promise a member awaits (line 105 or line 124) has settled: the
\* member's call settles with it, and Promise.all settles the task.
MemberOutcome(member) ==
    IF ops[member.op].phase = "fulfilled"
    THEN [member EXCEPT !.st = "resolved"]
    ELSE [member EXCEPT !.st = "rejected", !.err = ops[member.op].err]

MemberSettle(t, i) ==
    /\ t \in TaskIds
    /\ i \in 1..Len(tasks[t].members)
    /\ tasks[t].members[i].st = "pending"
    /\ ops[tasks[t].members[i].op].phase \in Settled
    /\ LET members == [tasks[t].members EXCEPT ![i] = MemberOutcome(@)]
           all == PromiseAll(tasks[t].form, members)
       IN  tasks' = [tasks EXCEPT ![t] =
                        IF tasks[t].st = "pending" THEN all
                        ELSE [tasks[t] EXCEPT !.members = members]]
    /\ UNCHANGED <<loaded, loadPromises, ops, downloadCalls, nativeCalls, registered>>

Init ==
    /\ loaded = EmptyObject
    /\ loadPromises = EmptyObject
    /\ ops = <<>>
    /\ downloadCalls = {}
    /\ nativeCalls = {}
    /\ registered = {}
    /\ tasks = <<>>

Next ==
    \/ \E name \in FontNames, source \in Sources : LoadName(name, source)
    \/ \E m \in FontMaps : LoadMap(m)
    \/ \E k \in 1..MaxOps, resolves \in BOOLEAN, isDownloaded \in BOOLEAN :
           DownloadSettle(k, resolves, isDownloaded)
    \/ \E k \in 1..MaxOps, resolves \in BOOLEAN : NativeSettle(k, resolves)
    \/ \E k \in 1..MaxOps : OpSettle(k)
    \/ \E t \in 1..MaxTasks, i \in 1..MaxMapSize : MemberSettle(t, i)

Spec == Init /\ [][Next]_vars

\* The runs of an application that uses the deprecated array form, at most
\* MaxArrayCalls times, next to loads by name.
ArrayCalls == {t \in TaskIds : tasks[t].form = "array"}

ArrayNext ==
    \/ /\ Cardinality(ArrayCalls) < MaxArrayCalls
       /\ \E fontMaps \in FontArrays : LoadArray(fontMaps)
    \/ \E name \in ArrayNames, source \in ArraySources : LoadName(name, source)
    \/ \E k \in 1..MaxOps, resolves \in BOOLEAN, isDownloaded \in BOOLEAN :
           DownloadSettle(k, resolves, isDownloaded)
    \/ \E k \in 1..MaxOps, resolves \in BOOLEAN : NativeSettle(k, resolves)
    \/ \E k \in 1..MaxOps : OpSettle(k)
    \/ \E t \in 1..MaxTasks, i \in 1..(MaxArraySize * MaxMapSize) : MemberSettle(t, i)

ArraySpec == Init /\ [][ArrayNext]_vars

\* The event loop runs every continuation that is ready (OpSettle,
\* MemberSettle), and every asset download and native registration call
\* eventually settles.
FairSpec ==
    /\ Spec
    /\ \A k \in 1..MaxOps : WF_vars(OpSettle(k))
    /\ \A t \in 1..MaxTasks, i \in 1..MaxMapSize : WF_vars(MemberSettle(t, i))
    /\ \A k \in 1..MaxOps :
          WF_vars(\E resolves \in BOOLEAN, isDownloaded \in BOOLEAN :
                     DownloadSettle(k, resolves, isDownloaded))
    /\ \A k \in 1..MaxOps : WF_vars(\E resolves \in BOOLEAN : NativeSettle(k, resolves))

\* ------------------------------------------------------- the claims
MemberRefs == {<<t, i>> : t \in 1..MaxTasks, i \in 1..MaxMapSize}
IsMember(x) == x[1] \in TaskIds /\ x[2] \in 1..Len(tasks[x[1]].members)
MemberAt(x) == tasks[x[1]].members[x[2]]
Members == {x \in MemberRefs : IsMember(x)}

OpsOf(name) == {k \in OpIds : ops[k].name = name}
RunningOps(name) == {k \in OpsOf(name) : ops[k].phase \in Running}
DownloadsBy(k) == {c \in downloadCalls : c[1] = k}
NativeCallsBy(k) == {c \in nativeCalls : c[1] = k}

\* C1 (dedup): for every font name at most one download+registration sequence
\* is running at any time; every sequence makes exactly one
\* asset.downloadAsync call and at most one ExpoFontLoader.loadAsync call, so
\* the name has as many download calls as sequences; all the callers waiting
\* on a sequence that is still running wait on the one sequence recorded in
\* loadPromises; and isLoading(name) holds exactly while a sequence runs.
C1_Dedup ==
    \A name \in FontNames :
        /\ Cardinality(RunningOps(name)) <= 1
        /\ Cardinality({c \in downloadCalls : c[2] = name}) = Cardinality(OpsOf(name))
        /\ \A k \in OpsOf(name) :
              /\ Cardinality(DownloadsBy(k)) = 1
              /\ Cardinality(NativeCallsBy(k)) <= 1
        /\ \A x \in Members :
              (MemberAt(x).name = name /\ MemberAt(x).st = "pending")
                  => /\ MemberAt(x).op \in OpsOf(name)
                     /\ ops[MemberAt(x).op].phase \in Running
                           => /\ RunningOps(name) = {MemberAt(x).op}
                              /\ Get(loadPromises, name) = PromiseOf(MemberAt(x).op)
        /\ isLoading(name) <=> RunningOps(name) # {}

\* C1 witness: two calls of different tasks wait on the same running sequence
\* of a name, for which one download call has been made.
C1_Witness ==
    \E x, y \in Members :
        /\ x[1] # y[1]
        /\ MemberAt(x).st = "pending" /\ MemberAt(y).st = "pending"
        /\ MemberAt(x).op = MemberAt(y).op
        /\ ops[MemberAt(x).op].phase = "registering"
        /\ Cardinality({c \in downloadCalls : c[2] = MemberAt(x).name}) = 1
        /\ Cardinality(NativeCallsBy(MemberAt(x).op)) = 1

\* C2 (shared outcome): a caller that joined an operation never settles before
\* the operation does, and settles with the operation's outcome: resolved when
\* it is fulfilled, rejected with the operation's error when it is rejected;
\* the operation it waits on is an operation for its own name.
C2_SharedOutcome ==
    \A x \in Members :
        LET m == MemberAt(x)
        IN  m.op # 0 =>
              /\ m.op \in OpIds /\ ops[m.op].name = m.name
              /\ m.st = "pending" \/ ops[m.op].phase \in Settled
              /\ m.st = "resolved" => ops[m.op].phase = "fulfilled"
              /\ m.st = "rejected" => ops[m.op].phase = "rejected" /\ m.err = ops[m.op].err

\* C2 witness: the caller that started an operation and a caller that joined
\* it have both been rejected with the operation's error.
C2_Witness ==
    \E x, y \in Members :
        /\ x[1] # y[1]
        /\ MemberAt(x).op # 0 /\ MemberAt(x).op = MemberAt(y).op
        /\ MemberAt(x).st = "rejected" /\ MemberAt(y).st = "rejected"
        /\ MemberAt(x).err = ErrNativeRejected /\ MemberAt(y).err = ErrNativeRejected

\* The inputs of the resolver: undefined, null, the empty string, the platform
\* sentinel, a system font, a bundled-font name, an already namespaced name,
\* the loadable names and a name that is never loaded.
NamespacedFoo == "ExpoFont-" \o sessionId \o "-Foo"
BypassInputs ==
    {Undefined, Null, Str(""), Str("System"), Str("Arial"), Str("FuturaBT-Bold"),
     Str(NamespacedFoo)}
ResolverInputs == BypassInputs \cup {Str(n) : n \in FontNames} \cup {Str("Bar")}
ResolverNames == {x.val : x \in {y \in ResolverInputs : y.type = "string"}}

LastTask == tasks[Len(tasks)]
RegistryUnchanged ==
    UNCHANGED <<loaded, loadPromises, ops, downloadCalls, nativeCalls, registered>>

\* C3, as claimed: once a loadAsync(name, source) call has settled
\* successfully for a name that is not a bypass input, isLoaded(name) is true,
\* isLoading(name) is false and processFontFamily(name) is "ExpoFont-" followed
\* by sessionId-name, the name a successful native registration was given.
C3_Original ==
    \A t \in TaskIds :
        (tasks[t].form = "name" /\ tasks[t].st = "resolved")
            => LET name == tasks[t].members[1].name
               IN  Str(name) \notin BypassInputs
                     => /\ isLoaded(name)
                        /\ ~isLoading(name)
                        /\ processFontFamily(Str(name))
                              = Str("ExpoFont-" \o sessionId \o "-" \o name)
                        /\ \E c \in nativeCalls :
                              /\ c[2] \in registered
                              /\ processFontFamily(Str(name)) = Str("ExpoFont-" \o c[2])

\* The same statement for the names that are not properties of
\* Object.prototype; it holds.
C3_OwnNames ==
    \A t \in TaskIds :
        (tasks[t].form = "name" /\ tasks[t].st = "resolved")
            => LET name == tasks[t].members[1].name
               IN  (Str(name) \notin BypassInputs /\ name \notin ObjectPrototypeKeys)
                     => /\ isLoaded(name)
                        /\ ~isLoading(name)
                        /\ processFontFamily(Str(name))
                              = Str("ExpoFont-" \o sessionId \o "-" \o name)
                        /\ \E c \in nativeCalls :
                              /\ c[2] \in registered
                              /\ processFontFamily(Str(name)) = Str("ExpoFont-" \o c[2])

FailedBefore(name) == \E k \in OpsOf(name) : ops[k].phase = "rejected"

\* C4 (retry after failure): the step in which a load fails leaves the name
\* neither in flight nor loaded; and a later loadAsync(name, validSource),
\* made while no sequence for the name is running, starts a fresh sequence:
\* a new operation with no error, in its download, recorded in loadPromises,
\* with one new asset.downloadAsync call, on which the caller waits.
C4_RetryAfterFailure ==
    [][/\ \A k \in 1..MaxOps :
             (OpSettle(k) /\ ops[k].phase = "thrown")
                 => /\ ~hasOwnProperty(loadPromises', ops[k].name)
                    /\ ~hasOwnProperty(loaded', ops[k].name)
       /\ \A name \in FontNames, source \in ValidSources :
             (/\ FailedBefore(name)
              /\ RunningOps(name) = {}
              /\ ~isLoaded(name)
              /\ LoadName(name, source))
                 => LET k == Len(ops) + 1
                    IN  /\ Len(ops') = k
                        /\ ops'[k] = [name |-> name, asset |-> _getAssetForSource(source),
                                      phase |-> "downloading", err |-> NoError]
                        /\ Get(loadPromises', name) = PromiseOf(k)
                        /\ downloadCalls' =
                             downloadCalls \cup {<<k, name, _getAssetForSource(source)>>}
                        /\ tasks'[Len(tasks')].members[1] = Member(name, "pending", k, NoError)
      ]_vars

\* C4 witness: a name whose first load failed because the asset reported
\* downloaded=false has been loaded by a second call, which has succeeded.
C4_Witness ==
    \E name \in FontNames :
        /\ \E k \in OpsOf(name) :
              ops[k].phase = "rejected" /\ ops[k].err = ErrFailedDownload(name)
        /\ isLoaded(name) /\ ~isLoading(name)
        /\ Len(tasks) = 2 /\ tasks[1].st = "rejected" /\ tasks[2].st = "resolved"
        /\ tasks[2].members[1].op = 2

\* A member of a rejected loadAsync(mapping) call that has not failed itself
\* and waits on an operation in the given phases.
SiblingIn(t, i, phases) ==
    /\ t \in TaskIds
    /\ tasks[t].form = "map" /\ tasks[t].st = "rejected"
    /\ i \in 1..Len(tasks[t].members)
    /\ tasks[t].members[i].st # "rejected"
    /\ tasks[t].members[i].op # 0
    /\ ops[tasks[t].members[i].op].phase \in phases

SiblingLoaded(t, i) ==
    /\ t \in TaskIds
    /\ i \in 1..Len(tasks[t].members)
    /\ isLoaded(tasks[t].members[i].name)

\* C5 (failing member of a mapping): a loadAsync(mapping) call is rejected as
\* soon as a member's failure is observed, with the error of a failed member;
\* a sibling's operation that is still running when the call has been
\* rejected is not cancelled, it runs on until it settles; and once the
\* sibling's download and native registration have succeeded, the sibling's
\* name ends up in the Loaded Set.
C5_MapFailure ==
    /\ [](\A t \in TaskIds :
             tasks[t].form = "map" =>
                 /\ (\E i \in 1..Len(tasks[t].members) : tasks[t].members[i].st = "rejected")
                       => tasks[t].st = "rejected"
                 /\ tasks[t].st = "rejected"
                       => \E i \in 1..Len(tasks[t].members) :
                              /\ tasks[t].members[i].st = "rejected"
                              /\ tasks[t].err = tasks[t].members[i].err)
    /\ \A t \in 1..MaxTasks, i \in 1..MaxMapSize :
          /\ SiblingIn(t, i, Running) ~> SiblingIn(t, i, Settled)
          /\ SiblingIn(t, i, {"returned"}) ~> SiblingLoaded(t, i)

\* C5 witness: loadAsync({Foo: ..., Arial: ...}) has been rejected with the
\* download failure of Arial, and Foo, loaded by the same call, is in the
\* Loaded Set.
C5_Witness ==
    /\ Len(tasks) = 1
    /\ tasks[1].form = "map" /\ tasks[1].st = "rejected"
    /\ tasks[1].err = ErrFailedDownload("Arial")
    /\ Len(tasks[1].members) = 2
    /\ tasks[1].members[1].name = "Foo" /\ tasks[1].members[1].op = 1
    /\ ops[1].phase = "fulfilled"
    /\ isLoaded("Foo") /\ ~isLoaded("Arial")

\* C6, as claimed: when a loadAsync(mapping) call has resolved, every name of
\* the mapping is loaded and none is in flight.
C6_Original ==
    \A t \in TaskIds :
        (tasks[t].form = "map" /\ tasks[t].st = "resolved")
            => \A i \in 1..Len(tasks[t].members) :
                  /\ isLoaded(tasks[t].members[i].name)
                  /\ ~isLoading(tasks[t].members[i].name)

\* The same statement for the names that are not properties of
\* Object.prototype; it holds.
C6_OwnNames ==
    \A t \in TaskIds :
        (tasks[t].form = "map" /\ tasks[t].st = "resolved")
            => \A i \in 1..Len(tasks[t].members) :
                  tasks[t].members[i].name \notin ObjectPrototypeKeys
                      => /\ isLoaded(tasks[t].members[i].name)
                         /\ ~isLoading(tasks[t].members[i].name)

Requested(name) == \E x \in Members : MemberAt(x).name = name

\* C7, as claimed: for every name never loaded or requested, isLoaded and
\* isLoading are false and processFontFamily returns "System".
C7_Original ==
    \A name \in ResolverNames :
        ~Requested(name)
            => /\ ~isLoaded(name)
               /\ ~isLoading(name)
               /\ processFontFamily(Str(name)) = Str("System")

\* C7, amended: for every name never loaded or requested, isLoaded and
\* isLoading are false, and processFontFamily returns "System" unless the name
\* is a bypass input of the resolver, which it returns unchanged.
C7_NeverRequested ==
    \A name \in ResolverNames :
        ~Requested(name)
            => /\ ~isLoaded(name)
               /\ ~isLoading(name)
               /\ processFontFamily(Str(name)) =
                     IF Str(name) \in BypassInputs THEN Str(name) ELSE Str("System")

\* C7 witness: a name has never been requested while another name has been
\* loaded and a third is in flight.
C7_Witness ==
    /\ ~Requested("constructor") /\ ~Requested("Bar")
    /\ isLoaded("Arial")
    /\ isLoading("Foo")
    /\ processFontFamily(Str("constructor")) = Str("System")

\* C8 (resolver bypass): in every registry state processFontFamily returns
\* undefined, null, the empty string, "System", a system font, a bundled-font
\* name and a name that contains the session id unchanged, also when the name
\* is in the Loaded Set.
C8_Bypass == \A x \in BypassInputs : processFontFamily(x) = x

\* C8 witness: a system font name has been loaded through loadAsync and is
\* still returned unchanged, while a loaded ordinary name is namespaced.
C8_Witness ==
    /\ isLoaded("Arial") /\ processFontFamily(Str("Arial")) = Str("Arial")
    /\ isLoaded("Foo") /\ processFontFamily(Str("Foo")) = Str(NamespacedFoo)

\* C9, as claimed: loadAsync(name) with no source, for a name that is neither
\* loaded nor in flight, fails at once with the no-source error and changes
\* nothing: no operation, no download, no registration, no registry entry.
C9_Original ==
    [][\A name \in FontNames :
          (~isLoaded(name) /\ ~isLoading(name) /\ LoadName(name, Undefined))
              => /\ tasks'[Len(tasks')].st = "rejected"
                 /\ tasks'[Len(tasks')].err = ErrNoSource(name)
                 /\ RegistryUnchanged]_vars

\* The same statement for the names that are not properties of
\* Object.prototype; it holds.
C9_OwnNames ==
    [][\A name \in FontNames \ ObjectPrototypeKeys :
          (~isLoaded(name) /\ ~isLoading(name) /\ LoadName(name, Undefined))
              => /\ tasks'[Len(tasks')].st = "rejected"
                 /\ tasks'[Len(tasks')].err = ErrNoSource(name)
                 /\ RegistryUnchanged]_vars

\* C10, as claimed, for the names that are not properties of Object.prototype:
\* loadAsync(name, remoteUri) errors in every registry state and creates no
\* partial state.
C10_Original ==
    [][\A name \in FontNames \ ObjectPrototypeKeys :
          LoadName(name, Str(RemoteUri))
              => /\ tasks'[Len(tasks')].st = "rejected"
                 /\ tasks'[Len(tasks')].err = ErrRemoteUri
                 /\ RegistryUnchanged]_vars

\* C10, amended: loadAsync(name, remoteUri) creates no partial state in any
\* registry state (no operation, no download, no registration, no entry in
\* loaded or loadPromises), and it errors with the remote-URI error whenever
\* loadAsync gets past its own checks, loaded[name] and loadPromises[name]
\* both being falsy; otherwise it returns at once or joins the operation
\* that is in flight.
C10_RemoteUri ==
    [][\A name \in FontNames :
          LoadName(name, Str(RemoteUri))
              => /\ RegistryUnchanged
                 /\ (~Truthy(Get(loaded, name)) /\ ~Truthy(Get(loadPromises, name)))
                       => /\ tasks'[Len(tasks')].st = "rejected"
                          /\ tasks'[Len(tasks')].err = ErrRemoteUri
                 /\ Truthy(Get(loaded, name))
                       => tasks'[Len(tasks')].st = "resolved"
                 /\ (~Truthy(Get(loaded, name)) /\ isLoading(name))
                       => tasks'[Len(tasks')].members[1] =
                            Member(name, "pending", loadPromises[name].op, NoError)]_vars

\* C10 witness: a loadAsync(name, remoteUri) call has been rejected with the
\* remote-URI error while another name is loaded and nothing is in flight.
C10_Witness ==
    /\ Len(tasks) = 2
    /\ tasks[2].form = "name" /\ tasks[2].st = "rejected" /\ tasks[2].err = ErrRemoteUri
    /\ tasks[2].members[1].name = "Foo"
    /\ isLoaded("Arial") /\ DOMAIN loadPromises = {} /\ DOMAIN loaded = {"Arial"}

\* C11 (already loaded is a no-op): loadAsync(name, source) for a name in the
\* Loaded Set succeeds at once, whatever the source (none, a remote URI, a
\* module, an asset), and changes nothing: no download, no native
\* registration, no In-Flight Map entry, the Loaded Set as it was.
C11_LoadedNoOp ==
    [][\A name \in FontNames, source \in Sources :
          (isLoaded(name) /\ LoadName(name, source))
              => /\ tasks'[Len(tasks')] =
                      PromiseAll("name", <<Member(name, "resolved", 0, NoError)>>)
                 /\ tasks'[Len(tasks')].st = "resolved"
                 /\ RegistryUnchanged]_vars

\* C11 witness: a second loadAsync call for a loaded name has resolved without
\* an operation, the name has still one download and one native call.
C11_Witness ==
    /\ Len(tasks) = 2 /\ Len(ops) = 1
    /\ isLoaded("Foo") /\ ~isLoading("Foo")
    /\ tasks[2].form = "name" /\ tasks[2].st = "resolved"
    /\ tasks[2].members[1] = Member("Foo", "resolved", 0, NoError)
    /\ Cardinality(downloadCalls) = 1 /\ Cardinality(nativeCalls) = 1

\* C12 (guaranteed cleanup): when every download and every native
\* registration call eventually settles, every operation that has begun
\* eventually settles, every caller waiting on one eventually settles, and
\* whenever isLoading(name) is true it eventually becomes false.
C12_Cleanup ==
    /\ \A k \in 1..MaxOps :
          (k \in OpIds /\ ops[k].phase \in Running) ~> (k \in OpIds /\ ops[k].phase \in Settled)
    /\ \A name \in FontNames : isLoading(name) ~> ~isLoading(name)
    /\ \A x \in MemberRefs :
          (IsMember(x) /\ MemberAt(x).st = "pending")
              ~> (IsMember(x) /\ MemberAt(x).st # "pending")

\* C12 witness: three loads of one run have left the In-Flight Map empty, one
\* by a rejected download, one by a rejected native registration.
C12_Witness ==
    /\ DOMAIN loadPromises = {}
    /\ Len(ops) = 2
    /\ ops[1].phase = "rejected" /\ ops[1].err = ErrDownloadRejected
    /\ ops[2].phase = "rejected" /\ ops[2].err = ErrNativeRejected
    /\ \A x \in Members : MemberAt(x).st = "rejected"

\* C13 (the Loaded Set only grows, and only by a successful registration): a
\* name that is loaded stays loaded in every step, and a name becomes loaded
\* only in the step that continues an operation for that name after its
\* native registration call has succeeded.
C13_LoadedMonotonic ==
    [][\A name \in FontNames :
          /\ isLoaded(name) => hasOwnProperty(loaded', name)
          /\ (~isLoaded(name) /\ hasOwnProperty(loaded', name))
                => \E k \in OpIds :
                      /\ OpSettle(k)
                      /\ ops[k].name = name
                      /\ ops[k].phase = "returned"
                      /\ _getNativeFontName(name) \in registered
                      /\ \E c \in NativeCallsBy(k) : c[2] = _getNativeFontName(name)]_vars

\* C13 witness: a name is loaded and, after that, a load of another name has
\* failed and a call without a source has been rejected.
C13_Witness ==
    /\ isLoaded("Foo") /\ ~isLoaded("Arial")
    /\ Len(ops) = 2 /\ ops[1].name = "Foo" /\ ops[2].name = "Arial"
    /\ ops[2].phase = "rejected"
    /\ Len(tasks) = 2 /\ tasks[2].st = "rejected"

\* C14 (the In-Flight Map mirrors the running sequences): in every state a
\* name has an entry in loadPromises exactly when an operation for it has been
\* started and has not settled, and the entry is that operation's promise; an
\* operation that has settled, and so every operation whose settlement a
\* caller has observed, is no longer the entry of its name.
C14_InFlightExact ==
    /\ \A name \in FontNames : isLoading(name) <=> RunningOps(name) # {}
    /\ \A k \in OpIds :
          /\ ops[k].phase \in Running => Get(loadPromises, ops[k].name) = PromiseOf(k)
          /\ ops[k].phase \in Settled => Get(loadPromises, ops[k].name) # PromiseOf(k)
    /\ \A x \in Members :
          (MemberAt(x).op # 0 /\ MemberAt(x).st # "pending")
              => Get(loadPromises, MemberAt(x).name) # PromiseOf(MemberAt(x).op)
    /\ \A name \in DOMAIN loadPromises :
          loadPromises[name].op \in OpIds /\ ops[loadPromises[name].op].name = name

\* C14 witness: one operation is in its download with its entry present, and
\* a caller has observed the failure of an earlier operation of the same name.
C14_Witness ==
    /\ Len(ops) = 2 /\ ops[1].name = "Foo" /\ ops[2].name = "Foo"
    /\ ops[1].phase = "rejected" /\ ops[2].phase = "downloading"
    /\ Get(loadPromises, "Foo") = PromiseOf(2)
    /\ tasks[1].st = "rejected" /\ tasks[1].members[1].op = 1

\* C15 (loaded and in flight exclude each other): in every state no name is
\* both in the Loaded Set and in the In-Flight Map.
C15_LoadedXorLoading == \A name \in FontNames : ~(isLoaded(name) /\ isLoading(name))

\* C15 witness: loadAsync has been called again for a loaded name while
\* another name is in flight.
C15_Witness ==
    /\ isLoaded("Foo") /\ ~isLoading("Foo")
    /\ isLoading("Arial") /\ ~isLoaded("Arial")
    /\ \E t \in TaskIds :
          /\ tasks[t].st = "resolved"
          /\ tasks[t].members = <<Member("Foo", "resolved", 0, NoError)>>

DownloadErrors(name) == {ErrDownloadRejected, ErrFailedDownload(name)}

\* C16 (step ordering inside one load): ExpoFontLoader.loadAsync is called
\* only in the step in which the download resolves with downloaded=true; a
\* download that rejects or leaves downloaded=false fails the load, which
\* never calls the native registration; and a name becomes loaded only after
\* the registration call of its operation has succeeded.
C16_StepOrder ==
    [][/\ \A k \in 1..MaxOps, resolves \in BOOLEAN, isDownloaded \in BOOLEAN :
             DownloadSettle(k, resolves, isDownloaded)
                 => IF resolves /\ isDownloaded
                    THEN /\ ops'[k].phase = "registering"
                         /\ nativeCalls' = nativeCalls \cup
                               {<<k, _getNativeFontName(ops[k].name), localUri(ops[k].asset)>>}
                    ELSE /\ ops'[k].phase = "thrown"
                         /\ ops'[k].err \in DownloadErrors(ops[k].name)
                         /\ nativeCalls' = nativeCalls
       /\ nativeCalls' # nativeCalls
             => \E k \in OpIds : DownloadSettle(k, TRUE, TRUE)
       /\ \A k \in 1..Len(ops') :
             /\ ops'[k].phase = "downloading" => \A c \in nativeCalls' : c[1] # k
             /\ ops'[k].err \in DownloadErrors(ops'[k].name) => \A c \in nativeCalls' : c[1] # k
             /\ ops'[k].phase \in {"returned", "fulfilled"}
                   => /\ \E c \in nativeCalls' : c[1] = k
                      /\ _getNativeFontName(ops'[k].name) \in registered'
       /\ \A name \in FontNames :
             hasOwnProperty(loaded', name)
                 => \E k \in 1..Len(ops') :
                       /\ ops'[k].name = name /\ ops'[k].phase = "fulfilled"
                       /\ _getNativeFontName(name) \in registered'
      ]_vars

\* C16 witness: one load has failed on downloaded=false and another on a
\* rejected download, neither with a native call, and nothing is loaded.
C16_Witness ==
    /\ Len(ops) = 2
    /\ ops[1].phase = "rejected" /\ ops[1].err = ErrFailedDownload(ops[1].name)
    /\ ops[2].phase = "rejected" /\ ops[2].err = ErrDownloadRejected
    /\ nativeCalls = {} /\ registered = {} /\ DOMAIN loaded = {}
    /\ Cardinality(downloadCalls) = 2

\* The names processFontFamily does not bypass.
NonBypassNames == {name \in ResolverNames : Str(name) \notin BypassInputs}

\* C17 (fallback while not loaded): in every state, for every name that is
\* not a bypass input and is not loaded, processFontFamily(name) returns
\* "System", whether the name is in flight or was never requested; a
\* development build logs exactly one diagnostic for the call, the 'still
\* loading' one exactly when isLoading(name) and the 'never loaded' one
\* otherwise; and whenever the namespaced name is returned the native
\* registration of that name has succeeded.
C17_FallbackWhileNotLoaded ==
    \A name \in NonBypassNames :
        /\ ~isLoaded(name)
              => /\ processFontFamily(Str(name)) = Str("System")
                 /\ Len(consoleErrors(Str(name), TRUE)) = 1
                 /\ isLoading(name)
                       <=> consoleErrors(Str(name), TRUE) = <<StillLoadingError(name)>>
                 /\ ~isLoading(name)
                       <=> consoleErrors(Str(name), TRUE) = <<NeverLoadedError(name)>>
        /\ processFontFamily(Str(name)) = Str("ExpoFont-" \o _getNativeFontName(name))
              => /\ _getNativeFontName(name) \in registered
                 /\ \E k \in OpIds : ops[k].name = name /\ ops[k].phase = "fulfilled"

\* C17 witness: the native registration of a name in flight has succeeded but
\* its load has not continued yet; the resolver still falls back, with the
\* 'still loading' diagnostic, and a name never requested gets the other one.
C17_Witness ==
    /\ isLoading("Foo") /\ ~isLoaded("Foo")
    /\ _getNativeFontName("Foo") \in registered
    /\ processFontFamily(Str("Foo")) = Str("System")
    /\ consoleErrors(Str("Foo"), TRUE) = <<StillLoadingError("Foo")>>
    /\ ~Requested("constructor")
    /\ consoleErrors(Str("constructor"), TRUE) = <<NeverLoadedError("constructor")>>

\* C18 (the resolver is idempotent): in every state and for every input,
\* processFontFamily(processFontFamily(x)) = processFontFamily(x).
C18_Idempotent ==
    \A x \in ResolverInputs : processFontFamily(processFontFamily(x)) = processFontFamily(x)

\* C18 witness: a loaded name resolves to its namespaced name, which is not
\* the input, while another name is in flight and falls back.
C18_Witness ==
    /\ isLoaded("Foo")
    /\ processFontFamily(Str("Foo")) = Str(NamespacedFoo)
    /\ processFontFamily(Str(NamespacedFoo)) = Str(NamespacedFoo)
    /\ isLoading("constructor") = FALSE /\ isLoading("Arial")
    /\ processFontFamily(Str("constructor")) = Str("System")

\* The operations a call still waits for.
PendingOps(members) ==
    {members[i].op : i \in {j \in 1..Len(members) : members[j].st = "pending"}}

\* The step made by loadAsync(fontMaps) leaves what loadAsync(Merge(fontMaps))
\* would have left in the same state: the same operations with the same
\* names and assets, the same downloads, the same In-Flight Map and Loaded
\* Set, the same outcome so far and the same operations to wait for (so the
\* same native registrations, final Loaded Set and outcome afterwards).
SameAsMerged(fontMaps) ==
    LET merged == loadAsyncMembers(Registry, Merge(fontMaps))
        all == PromiseAll("map", merged.members)
    IN  /\ ops' = merged.reg.ops
        /\ downloadCalls' = merged.reg.downloadCalls
        /\ loadPromises' = merged.reg.loadPromises
        /\ loaded' = merged.reg.loaded
        /\ tasks'[Len(tasks')].st = all.st
        /\ tasks'[Len(tasks')].err = all.err
        /\ PendingOps(tasks'[Len(tasks')].members) = PendingOps(merged.members)

\* No name comes with two different sources in the maps of the array.
OneSourcePerName(fontMaps) ==
    \A a, b \in 1..Len(fontMaps) :
        \A i \in 1..Len(fontMaps[a]), j \in 1..Len(fontMaps[b]) :
            fontMaps[a][i][1] = fontMaps[b][j][1] => fontMaps[a][i][2] = fontMaps[b][j][2]

\* C19, as claimed: for all maps m1..mk, also when one name comes with
\* different sources in several of them, loadAsync([m1, ..., mk]) causes the
\* same downloads, registrations, Loaded Set and outcome as
\* loadAsync({...m1, ..., ...mk}).
C19_Original ==
    [][(Len(tasks') > Len(tasks) /\ tasks'[Len(tasks')].form = "array")
          => \A fontMaps \in FontArrays : LoadArray(fontMaps) => SameAsMerged(fontMaps)]_vars

\* C19 (array form and merged map): loadAsync([m1, ..., mk]) causes the same
\* downloads, registrations, Loaded Set and outcome as
\* loadAsync({...m1, ..., ...mk}) whenever no name comes with different
\* sources in the maps.
C19_ArrayAsMerged ==
    [][(Len(tasks') > Len(tasks) /\ tasks'[Len(tasks')].form = "array")
          => \A fontMaps \in FontArrays :
                (OneSourcePerName(fontMaps) /\ LoadArray(fontMaps)) => SameAsMerged(fontMaps)]_vars

\* C19 witness: an array call whose two maps name the same font with the same
\* source has made one download and has resolved with the font loaded.
C19_Witness ==
    /\ Len(tasks) >= 1 /\ tasks[1].form = "array" /\ tasks[1].st = "resolved"
    /\ Len(tasks[1].members) = 2
    /\ tasks[1].members[1].name = "Foo" /\ tasks[1].members[2].name = "Foo"
    /\ tasks[1].members[1].op = 1 /\ tasks[1].members[2].op = 1
    /\ downloadCalls = {<<1, "Foo", 2>>}
    /\ isLoaded("Foo")

\* The three ways a loadAsync(name, source) step can go, read off the step.
TookNoOp(name) ==
    /\ tasks'[Len(tasks')].members = <<Member(name, "resolved", 0, NoError)>>
    /\ RegistryUnchanged

TookShared(name) ==
    /\ isLoading(name)
    /\ tasks'[Len(tasks')].members = <<Member(name, "pending", loadPromises[name].op, NoError)>>
    /\ RegistryUnchanged

TookNewDownload(name, source) ==
    /\ Len(ops') = Len(ops) + 1
    /\ ops'[Len(ops')].name = name
    /\ downloadCalls' = downloadCalls \cup {<<Len(ops'), name, _getAssetForSource(source)>>}
    /\ tasks'[Len(tasks')].members = <<Member(name, "pending", Len(ops'), NoError)>>

BranchAgrees(name, source) ==
    /\ TookNoOp(name) <=> isLoaded(name)
    /\ TookShared(name) <=> (~isLoaded(name) /\ isLoading(name))
    /\ TookNewDownload(name, source) <=> (~isLoaded(name) /\ ~isLoading(name))

\* C20, as claimed: for every name, "constructor" included, a step
\* loadAsync(name, validSource) is the already-loaded no-op exactly when
\* isLoaded(name), returns the operation in flight exactly when the name is
\* not loaded and isLoading(name), and otherwise starts a new download.
C20_Original ==
    [][\A name \in FontNames, source \in ValidSources :
          LoadName(name, source) => BranchAgrees(name, source)]_vars

\* The same statement for the names that are not properties of
\* Object.prototype; it holds.
C20_OwnNames ==
    [][\A name \in FontNames \ ObjectPrototypeKeys, source \in ValidSources :
          LoadName(name, source) => BranchAgrees(name, source)]_vars

====
